---- MODULE Spec2Model ----
(***************************************************************************)
(* FinalGridSeries (simulab/simulation/plotters/final_grid.py): a grid of  *)
(* heatmaps, one row per experiment, the first and the last snapshot of a  *)
(* named series side by side, with one shared color axis.                  *)
(*                                                                         *)
(* show_up is modelled as a sequential process: one action per call it     *)
(* makes, pc naming the call that comes next.  A Python exception is the   *)
(* position "fault": nothing catches it inside show_up, so the run ends.   *)
(*                                                                         *)
(* Numbers: lattice values are integers.  numpy.linspace yields floats;    *)
(* they are modelled as exact fractions [num, den] over the common         *)
(* denominator num-1 that linspace divides by (float rounding is not       *)
(* modelled).                                                              *)
(***************************************************************************)
EXTENDS FiniteSets, Integers, Sequences, TLC

VARIABLES
    runner,   \* the Runner handed to show_up: experiments, parameter set
    args,     \* the other arguments of show_up
    pc,       \* the call of show_up that comes next, or "done" / "fault"
    rows,     \* show_up's local rows
    zrange,   \* show_up's locals zmin, zmax: None before they are computed
    figure,   \* show_up's local figure: None before make_figure
    shown     \* how many times figure.show() ran

vars == <<runner, args, pc, rows, zrange, figure, shown>>

---------------------------------------------------------------------------
(* Bounds of the model *)

MaxExperiments == 2
MaxAgentTypes == 2
MaxStates == 2
MaxVal == 2

---------------------------------------------------------------------------
(* Python values *)

\* an optional value (x | None): the empty set is None
None == {}
Some(v) == {v}
Get(o) == CHOOSE v \in o : TRUE

Range(s) == {s[k] : k \in DOMAIN s}

SetMin(S) == CHOOSE m \in S : \A v \in S : m <= v
SetMax(S) == CHOOSE m \in S : \A v \in S : m >= v

\* min(list), max(list) of a non-empty list
Min(s) == SetMin(Range(s))
Max(s) == SetMax(Range(s))

\* sum(lattice, []): the rows of a lattice, concatenated in order
RECURSIVE Flatten(_)
Flatten(lattice) ==
    IF lattice = <<>> THEN <<>>
    ELSE Head(lattice) \o Flatten(Tail(lattice))

\* sep.join(parts)
RECURSIVE Join(_, _)
Join(parts, sep) ==
    IF parts = <<>> THEN ""
    ELSE IF Len(parts) = 1 THEN parts[1]
    ELSE parts[1] \o sep \o Join(Tail(parts), sep)

\* the orders in which iterating a Python set can yield its elements
Orders(S) ==
    {o \in [1..Cardinality(S) -> S] : \A i, j \in DOMAIN o : o[i] = o[j] => i = j}

\* numpy.linspace(start, stop, num), endpoint included: num values
\* start + k * (stop - start) / div, k = 0..num-1, with div = num - 1
\* (a single value is start itself)
LinspaceDiv(num) == IF num > 1 THEN num - 1 ELSE 1
Linspace(start, stop, num) ==
    [k \in 1..num |->
        [num |-> start * LinspaceDiv(num) + (k - 1) * (stop - start),
         den |-> LinspaceDiv(num)]]

\* f"{val:.1f}" of a non-negative fraction: the nearest tenth, a tie going to
\* the even one
Tenths(q) ==
    LET a == (10 * q.num) \div q.den
        r == (10 * q.num) % q.den
    IN  IF 2 * r > q.den \/ (2 * r = q.den /\ a % 2 = 1) THEN a + 1 ELSE a
Format1f(q) == ToString(Tenths(q) \div 10) \o "." \o ToString(Tenths(q) % 10)

\* str(x) of a numpy float: the text of that number (its digits are not
\* modelled)
Str(q) == <<"str", q>>

---------------------------------------------------------------------------
(* get_series_metadata *)

Fault == [fault |-> TRUE, value |-> <<>>]
Return(v) == [fault |-> FALSE, value |-> v]

\* lines 42-45: the parameter set's "agent_types" when it has one (the
\* greatest of its values), else the first experiment's agent_types
MaxAgentTypesOf(r) ==
    IF r.agent_types_param # None
    THEN SetMax(Get(r.agent_types_param))
    ELSE r.experiments[1].agent_types

\* StatesLabel without the wrap of the agent type (i in place of i % A)
StatesLabelNoMod(i, max_agent_types, states) ==
    ToString(i) \o " " \o states[(i \div max_agent_types) + 1]

\* lines 51-53
StatesTickvals(max_agent_types, states) ==
    [k \in 1..(max_agent_types * Len(states)) |-> k - 1]
StatesLabel(i, max_agent_types, states) ==
    ToString(i % max_agent_types) \o " " \o states[(i \div max_agent_types) + 1]

\* IsIntensity with the comparison off by one (>= in place of >)
IsIntensityAtSpread(_min, _max, max_agent_types) == _max - _min >= max_agent_types

\* line 58
IsIntensity(_min, _max, max_agent_types) == _max - _min > max_agent_types

\* IntensityTickvals with the experiment count left out
IntensityTickvalsEight(_min, _max, experiment_count) ==
    Linspace(_min, _max + 1, 8)

\* line 60
IntensityTickvals(_min, _max, experiment_count) ==
    Linspace(_min, _max + 1, 8 * experiment_count)

\* line 64
AgentTypeTickvals(max_agent_types) == [k \in 1..max_agent_types |-> k - 1]

Metadata(tickvals, labelalias) ==
    [tickvals |-> tickvals, labelalias |-> labelalias]

GetSeriesMetadata(r) ==
    IF r.experiments = <<>> THEN Fault                    \* IndexError, line 41
    ELSE IF r.agent_types_param = Some({}) THEN Fault     \* max(()), line 43
    ELSE LET experiment == r.experiments[1]
             max_agent_types == MaxAgentTypesOf(r)
    IN  IF experiment.series = None THEN Fault            \* AttributeError, line 47
        ELSE IF experiment.states # None
        THEN LET states == Get(experiment.states)
                 tickvals == StatesTickvals(max_agent_types, states)
             IN  Return(Metadata(tickvals,
                    [i \in Range(tickvals) |-> StatesLabel(i, max_agent_types, states)]))
        ELSE LET series == Get(experiment.series)
             IN  \* a fault inside the except block: the finally block's
                 \* return then reads an unbound local and faults itself
                 IF series = <<>> THEN Fault              \* IndexError, line 56
                 ELSE IF Flatten(series[1]) = <<>> THEN Fault  \* ValueError, line 57
                 ELSE LET lattice == Flatten(series[1])
                          _min == Min(lattice)
                          _max == Max(lattice)
                      IN  IF IsIntensity(_min, _max, max_agent_types)
                          THEN LET tickvals ==
                                     IntensityTickvals(_min, _max, Len(r.experiments))
                               IN  Return(Metadata(tickvals,
                                      [i \in Range(tickvals) |-> Str(i)]))
                          ELSE LET tickvals == AgentTypeTickvals(max_agent_types)
                               IN  Return(Metadata(tickvals,
                                      [i \in Range(tickvals) |-> ToString(i)]))

---------------------------------------------------------------------------
(* process_series *)

\* ParamsSet without the union with the varying parameters
ParamsSetListOnly(attributes_to_consider, parameters_to_vary) ==
    IF attributes_to_consider # None
    THEN Range(Get(attributes_to_consider)) ELSE {}

\* show_up, lines 22-23
ParamsSet(attributes_to_consider, parameters_to_vary) ==
    LET params == IF attributes_to_consider # None /\ Get(attributes_to_consider) # <<>>
                  THEN Get(attributes_to_consider) ELSE <<>>
    IN  Range(params) \cup parameters_to_vary

\* f"{attribute}={getattr(experiment, attribute)}"
Segment(experiment, attribute) ==
    attribute \o "=" \o ToString(experiment.attrs[attribute])

\* lines 85-87; order is the order in which the set params is iterated
Title(experiment, order) ==
    Join([k \in 1..Len(order) |-> Segment(experiment, order[k])], "<br>")

\* lines 80-91
Row(index, experiment, order, metadata) ==
    LET series == Get(experiment.series)
    IN  [index |-> index,
         first_lattice |-> series[1],
         last_lattice |-> series[Len(series)],
         title |-> Title(experiment, order),
         subplot_titles |-> <<"t_0", "t_" \o ToString(Len(series) - 1)>>,
         tickvals |-> metadata.tickvals,
         labelalias |-> metadata.labelalias]

\* what stops the loop body for one experiment: a series that is not there
\* (KeyError), an empty series (IndexError), an attribute that is not there
\* (AttributeError)
RowFaults(experiment, order) ==
    \/ experiment.series = None
    \/ Get(experiment.series) = <<>>
    \/ \E k \in DOMAIN order : order[k] \notin DOMAIN experiment.attrs

ProcessSeries(r, order) ==
    LET metadata == GetSeriesMetadata(r)
    IN  IF metadata.fault THEN Fault
        ELSE IF \E k \in DOMAIN r.experiments : RowFaults(r.experiments[k], order)
        THEN Fault
        ELSE Return([k \in DOMAIN r.experiments |->
                        Row(k, r.experiments[k], order, metadata.value)])

---------------------------------------------------------------------------
(* calculate_global_min_max *)

\* AllValues without the last lattices
RECURSIVE AllValuesFirstOnly(_)
AllValuesFirstOnly(rs) ==
    IF rs = <<>> THEN <<>>
    ELSE Flatten(Head(rs).first_lattice) \o AllValuesFirstOnly(Tail(rs))

\* lines 97-100: every row's first, then last, lattice, flattened, appended
RECURSIVE AllValues(_)
AllValues(rs) ==
    IF rs = <<>> THEN <<>>
    ELSE Flatten(Head(rs).first_lattice) \o Flatten(Head(rs).last_lattice)
            \o AllValues(Tail(rs))

\* CalculateGlobalMinMax taking min and max snapshot by snapshot: a single
\* empty snapshot faults
CalculateGlobalMinMaxEach(rs) ==
    IF \E k \in DOMAIN rs :
          Flatten(rs[k].first_lattice) = <<>> \/ Flatten(rs[k].last_lattice) = <<>>
    THEN [fault |-> TRUE, value |-> <<>>]
    ELSE [fault |-> FALSE, value |-> <<Min(AllValues(rs)), Max(AllValues(rs))>>]

\* line 101: min and max of an empty list raise ValueError
CalculateGlobalMinMax(rs) ==
    IF AllValues(rs) = <<>> THEN Fault
    ELSE Return(<<Min(AllValues(rs)), Max(AllValues(rs))>>)

---------------------------------------------------------------------------
(* make_figure *)

\* lines 105-114: the grid, its titles as annotations, the row titles moved
\* left of the grid
MakeFigure(rs) ==
    LET subplot_titles == [k \in 1..(2 * Len(rs)) |->
                              rs[(k + 1) \div 2].subplot_titles[2 - (k % 2)]]
        row_titles == [k \in 1..Len(rs) |-> rs[k].title]
        texts == subplot_titles \o row_titles
    IN  [grid_rows |-> Len(rs),
         grid_cols |-> 2,
         annotations |-> [k \in DOMAIN texts |->
                             [text |-> texts[k],
                              moved_left |-> texts[k] \in Range(row_titles)]],
         layout |-> None,
         data |-> <<>>]

---------------------------------------------------------------------------
(* configure_figure *)

\* TickCount counting the rows in place of the first row's tick values
TickCountRows(rs) == Len(rs)

\* line 140
TickCount(rs) == Len(rs[1].tickvals)

\* line 142
CalculatedHeight(height, row_count) ==
    IF height # None /\ Get(height) # 0
    THEN Get(height)
    ELSE IF 300 * row_count > 600 THEN 300 * row_count ELSE 600

\* lines 129-166
ConfigureFigure(fig, r, a, rs, zmin, zmax) ==
    LET new_tickvals == Linspace(zmin, zmax, TickCount(rs))
    IN  [fig EXCEPT !.layout = Some(
            [xaxis_range |-> <<0, r.experiments[1].length - 1>>,
             scaleanchor |-> [i \in 1..(2 * Len(rs)) |-> i],
             height |-> CalculatedHeight(a.height, Len(rs)),
             width |-> 700,
             title_text |-> a.plot_title,
             coloraxis |->
                [colorscale |-> a.colorscale,
                 colorbar |->
                    [title |-> a.leyend,
                     tickvals |-> new_tickvals,
                     ticktext |-> [k \in DOMAIN new_tickvals |->
                                      Format1f(new_tickvals[k])]],
                 cmin |-> zmin,
                 cmax |-> zmax],
             grid |-> [rows |-> Len(rs), columns |-> 2]])]

---------------------------------------------------------------------------
(* configure_heatmaps *)

\* Heatmap plotting the first lattice in both columns
HeatmapFirstOnly(row, column) ==
    [z |-> row.first_lattice,
     coloraxis |-> "coloraxis",
     row |-> row.index,
     col |-> column]

\* lines 177-185: one go.Heatmap, placed at (row, col)
Heatmap(row, column) ==
    [z |-> IF column = 1 THEN row.first_lattice ELSE row.last_lattice,
     coloraxis |-> "coloraxis",
     row |-> row.index,
     col |-> column]

\* lines 174-185: add_trace appends to the figure's data
ConfigureHeatmaps(fig, rs) ==
    [fig EXCEPT !.data =
        @ \o [k \in 1..(2 * Len(rs)) |-> Heatmap(rs[(k + 1) \div 2], 2 - (k % 2))]]

---------------------------------------------------------------------------
(* show_up, lines 22-32: its calls in order *)

\* NextCall with the figure shown before the heatmaps are added
NextCallShowEarly(call) ==
    CASE call = "process_series" -> "calculate_global_min_max"
      [] call = "calculate_global_min_max" -> "make_figure"
      [] call = "make_figure" -> "configure_figure"
      [] call = "configure_figure" -> "show"
      [] call = "show" -> "configure_heatmaps"
      [] call = "configure_heatmaps" -> "done"

NextCall(call) ==
    CASE call = "process_series" -> "calculate_global_min_max"
      [] call = "calculate_global_min_max" -> "make_figure"
      [] call = "make_figure" -> "configure_figure"
      [] call = "configure_figure" -> "configure_heatmaps"
      [] call = "configure_heatmaps" -> "show"
      [] call = "show" -> "done"

\* lines 22-24
CallProcessSeries ==
    /\ pc = "process_series"
    /\ \E order \in Orders(ParamsSet(args.attributes_to_consider,
                                     runner.parameters_to_vary)) :
          LET result == ProcessSeries(runner, order)
          IN  IF result.fault
              THEN pc' = "fault" /\ UNCHANGED rows
              ELSE pc' = NextCall(pc) /\ rows' = result.value
    /\ UNCHANGED <<runner, args, zrange, figure, shown>>

\* line 25
CallCalculateGlobalMinMax ==
    /\ pc = "calculate_global_min_max"
    /\ LET result == CalculateGlobalMinMax(rows)
       IN  IF result.fault
           THEN pc' = "fault" /\ UNCHANGED zrange
           ELSE pc' = NextCall(pc) /\ zrange' = Some(result.value)
    /\ UNCHANGED <<runner, args, rows, figure, shown>>

\* line 27
CallMakeFigure ==
    /\ pc = "make_figure"
    /\ figure' = Some(MakeFigure(rows))
    /\ pc' = NextCall(pc)
    /\ UNCHANGED <<runner, args, rows, zrange, shown>>

\* lines 28-30
CallConfigureFigure ==
    /\ pc = "configure_figure"
    /\ figure' = Some(ConfigureFigure(Get(figure), runner, args, rows,
                                      Get(zrange)[1], Get(zrange)[2]))
    /\ pc' = NextCall(pc)
    /\ UNCHANGED <<runner, args, rows, zrange, shown>>

\* line 31
CallConfigureHeatmaps ==
    /\ pc = "configure_heatmaps"
    /\ figure' = Some(ConfigureHeatmaps(Get(figure), rows))
    /\ pc' = NextCall(pc)
    /\ UNCHANGED <<runner, args, rows, zrange, shown>>

\* line 32
CallShow ==
    /\ pc = "show"
    /\ shown' = shown + 1
    /\ pc' = NextCall(pc)
    /\ UNCHANGED <<runner, args, rows, zrange, figure>>

---------------------------------------------------------------------------
(* The inputs of a run *)

Values == 0..MaxVal

\* lattices of up to two cells, and the two empty ones
Lattices ==
    {<<>>, << <<>> >>}
        \cup {<< <<a>> >> : a \in Values}
        \cup {<< <<a, b>> >> : a, b \in Values}
        \cup {<< <<a>>, <<b>> >> : a, b \in Values}

\* lattices of one cell, and the empty one
SmallLattices == {<<>>} \cup {<< <<a>> >> : a \in Values}

ParamNames == {"beta", "gamma"}
AttrValues == {1, 20}
Heights == {0, 450, 1200}

StateNames(count) == [k \in 1..count |-> "state" \o ToString(k)]

DefaultFirst == << <<0, 1>>, <<2, 3>> >>
DefaultLast == << <<5, 6>>, <<7, 8>> >>
DefaultAttrs == [p \in ParamNames |-> 1]
DefaultExperiment ==
    [agent_types |-> MaxAgentTypes + 1,
     length |-> 2,
     series |-> Some(<<DefaultFirst, DefaultLast>>),
     states |-> None,
     attrs |-> DefaultAttrs]
DefaultArgs ==
    [height |-> None,
     attributes_to_consider |-> None,
     plot_title |-> "grid",
     leyend |-> "",
     colorscale |-> "Viridis"]

InitLocals ==
    /\ pc = "process_series"
    /\ rows = <<>>
    /\ zrange = None
    /\ figure = None
    /\ shown = 0

\* runs that differ in what get_series_metadata reads: the experiment count,
\* the parameter set's "agent_types", the first experiment's agent_types,
\* metadata and first snapshot
InitMetadata ==
    /\ \E count \in 0..MaxExperiments,
          agents \in {<<None, a>> : a \in 0..MaxAgentTypes}
                        \cup {<<Some(S), MaxAgentTypes + 1>> : S \in SUBSET (0..MaxAgentTypes)},
          data \in {<<Some(StateNames(s)), DefaultFirst>> : s \in 0..MaxStates}
                        \cup {<<None, l>> : l \in Lattices} :
          runner = [experiments |->
                        [k \in 1..count |->
                            IF k = 1
                            THEN [DefaultExperiment EXCEPT
                                     !.agent_types = agents[2],
                                     !.states = data[1],
                                     !.series = Some(<<data[2], DefaultLast>>)]
                            ELSE DefaultExperiment],
                    agent_types_param |-> agents[1],
                    parameters_to_vary |-> {}]
    /\ args = DefaultArgs

\* runs that differ in the series of every experiment: not there, empty, of
\* one snapshot or of two
SeriesPool ==
    {None, Some(<<>>)}
        \cup {Some(<<a>>) : a \in SmallLattices}
        \cup {Some(<<a, b>>) : a, b \in SmallLattices}

InitSeries ==
    /\ \E count \in 1..MaxExperiments,
          states \in {None, Some(StateNames(1))} :
          \E series \in [1..count -> SeriesPool] :
             runner = [experiments |->
                          [k \in 1..count |->
                              [DefaultExperiment EXCEPT
                                  !.series = series[k], !.states = states]],
                       agent_types_param |-> None,
                       parameters_to_vary |-> {}]
    /\ args = DefaultArgs

\* runs that differ in what the row titles are made of
AttrsPool ==
    [ParamNames -> AttrValues] \cup {[p \in {"beta"} |-> 20]}

InitTitles ==
    /\ \E count \in 1..MaxExperiments,
          parameters_to_vary \in SUBSET ParamNames,
          attributes_to_consider \in
              {None} \cup {Some(<<>>)}
                  \cup {Some(<<p>>) : p \in ParamNames}
                  \cup {Some(<<p, q>>) : p, q \in ParamNames} :
          \E attrs \in [1..count -> AttrsPool] :
             /\ runner = [experiments |->
                             [k \in 1..count |->
                                 [DefaultExperiment EXCEPT !.attrs = attrs[k]]],
                          agent_types_param |-> None,
                          parameters_to_vary |-> parameters_to_vary]
             /\ args = [DefaultArgs EXCEPT
                           !.attributes_to_consider = attributes_to_consider]

\* runs that differ in the height argument
InitHeight ==
    /\ \E count \in 1..MaxExperiments + 1,
          height \in {None} \cup {Some(h) : h \in Heights} :
          /\ runner = [experiments |-> [k \in 1..count |-> DefaultExperiment],
                       agent_types_param |-> None,
                       parameters_to_vary |-> {}]
          /\ args = [DefaultArgs EXCEPT !.height = height]

Init ==
    /\ InitLocals
    /\ (InitMetadata \/ InitSeries \/ InitTitles \/ InitHeight)

Next ==
    \/ CallProcessSeries
    \/ CallCalculateGlobalMinMax
    \/ CallMakeFigure
    \/ CallConfigureFigure
    \/ CallConfigureHeatmaps
    \/ CallShow

Spec == Init /\ [][Next]_vars

---------------------------------------------------------------------------
(* What the claims speak of, read off the inputs and the locals *)

\* the values of a lattice's cells
Cells(lattice) == UNION {Range(lattice[i]) : i \in DOMAIN lattice}

\* process_series returned: there is a row per experiment
RowsBuilt == rows # <<>>

FirstExperiment == runner.experiments[1]
ExperimentCount == Len(runner.experiments)

\* A: the greatest "agent_types" value of the parameter set when it has that
\* entry, else the first experiment's agent-type count
AgentTypes ==
    IF runner.agent_types_param # None
    THEN CHOOSE a \in Get(runner.agent_types_param) :
            \A b \in Get(runner.agent_types_param) : b <= a
    ELSE FirstExperiment.agent_types

HasStates == FirstExperiment.states # None
FirstSnapshotCells == Cells(Get(FirstExperiment.series)[1])
Spread ==
    (CHOOSE hi \in FirstSnapshotCells : \A v \in FirstSnapshotCells : v <= hi)
        - (CHOOSE lo \in FirstSnapshotCells : \A v \in FirstSnapshotCells : lo <= v)

\* the metadata get_series_metadata returned, as process_series put it in
\* every row
EveryRowHas(tickvals, labelalias) ==
    \A k \in DOMAIN rows :
        rows[k].tickvals = tickvals /\ rows[k].labelalias = labelalias

---------------------------------------------------------------------------
\* C1: with a "states" entry of S states and A agent types, the tick values
\* are 0..A*S-1 in order and tick i is labelled "{i mod A} {states[i div A]}".
C1_StatesTicks ==
    (RowsBuilt /\ HasStates) =>
        LET states == Get(FirstExperiment.states)
            A == AgentTypes
            S == Len(states)
        IN  EveryRowHas(
                [k \in 1..(A * S) |-> k - 1],
                [i \in 0..(A * S - 1) |->
                    ToString(i % A) \o " " \o states[(i \div A) + 1]])

C1_Witness ==
    /\ RowsBuilt /\ HasStates
    /\ runner.agent_types_param = Some({1, 2})
    /\ Len(Get(FirstExperiment.states)) = 2
    /\ Len(rows[1].tickvals) = 4
    /\ rows[1].labelalias[3] = "1 state2"

\* C2: without a "states" entry and with a spread of the first experiment's
\* first snapshot of at most A (A itself included), the tick values are
\* 0..A-1 and each is labelled with its own integer, whatever the other
\* snapshots and experiments hold.
C2_AgentTypeTicks ==
    (RowsBuilt /\ ~HasStates /\ Spread <= AgentTypes) =>
        EveryRowHas(
            [k \in 1..AgentTypes |-> k - 1],
            [i \in 0..(AgentTypes - 1) |-> ToString(i)])

C2_Witness ==
    /\ RowsBuilt /\ ~HasStates
    /\ Spread = AgentTypes /\ AgentTypes = 2
    /\ ExperimentCount = 2
    /\ \E v \in Cells(rows[2].last_lattice) : v > 2 + AgentTypes
    /\ rows[2].tickvals = <<0, 1>>

\* C3: without a "states" entry and with a spread greater than A, there are
\* 8 * (number of experiments) tick values, evenly spaced, the first min and
\* the last max + 1, each labelled with its own value.
C3_IntensityTicks ==
    (RowsBuilt /\ ~HasStates /\ Spread > AgentTypes) =>
        LET tickvals == rows[1].tickvals
            count == 8 * ExperimentCount
            lo == CHOOSE m \in FirstSnapshotCells : \A v \in FirstSnapshotCells : m <= v
            hi == CHOOSE m \in FirstSnapshotCells : \A v \in FirstSnapshotCells : m >= v
        IN  /\ Len(tickvals) = count
            /\ \A k \in 1..count : tickvals[k].den = count - 1
            /\ tickvals[1].num = lo * (count - 1)
            /\ tickvals[count].num = (hi + 1) * (count - 1)
            /\ \A k \in 1..(count - 1) :
                  tickvals[k + 1].num - tickvals[k].num
                      = tickvals[2].num - tickvals[1].num
            /\ EveryRowHas(tickvals, [i \in Range(tickvals) |-> Str(i)])

C3_Witness ==
    /\ RowsBuilt /\ ~HasStates
    /\ Spread = 2 /\ AgentTypes = 1
    /\ ExperimentCount = 2
    /\ Len(rows[1].tickvals) = 16

\* C4: the global range is the least and the greatest value over all cells of
\* all rows' first and last lattices; configure_figure makes it the domain
\* (cmin, cmax) of the one color axis, and no cell of a plotted snapshot lies
\* outside it.
AllCells ==
    UNION {Cells(rows[k].first_lattice) \cup Cells(rows[k].last_lattice) :
              k \in DOMAIN rows}

C5_TickCounts ==
    (figure # None /\ Get(figure).layout # None) =>
        LET colorbar == Get(Get(figure).layout).coloraxis.colorbar
            returned == GetSeriesMetadata(runner).value.tickvals
        IN  /\ Len(colorbar.tickvals) = Len(returned)
            /\ Len(colorbar.ticktext) = Len(returned)

C5_Witness ==
    /\ figure # None /\ Get(figure).layout # None
    /\ ~HasStates /\ Spread > AgentTypes /\ ExperimentCount = 2
    /\ Len(Get(Get(figure).layout).coloraxis.colorbar.ticktext) = 16

\* C6: the figure height is max(600, 300 * row count) when no height is
\* given, and the given height otherwise, 0 included.
C6_Height ==
    (figure # None /\ Get(figure).layout # None) =>
        Get(Get(figure).layout).height =
            IF args.height = None
            THEN (IF 300 * Len(rows) > 600 THEN 300 * Len(rows) ELSE 600)
            ELSE Get(args.height)

\* C7: every row's title is one "param=value" segment per parameter of
\* attributes_to_consider united with the varying parameters, the value being
\* the experiment's attribute, the segments joined by "<br>" (in some order);
\* it is empty when there is no such parameter.
TitleParams ==
    (IF args.attributes_to_consider = None THEN {}
     ELSE Range(Get(args.attributes_to_consider)))
        \cup runner.parameters_to_vary

C7_Titles ==
    RowsBuilt =>
        \A k \in DOMAIN rows :
            /\ \E order \in Orders(TitleParams) :
                  rows[k].title =
                      Join([n \in DOMAIN order |->
                               order[n] \o "=" \o
                                  ToString(runner.experiments[k].attrs[order[n]])],
                           "<br>")
            /\ TitleParams = {} => rows[k].title = ""

C7_Witness ==
    /\ RowsBuilt
    /\ args.attributes_to_consider = Some(<<"beta", "beta">>)
    /\ runner.parameters_to_vary = {"beta", "gamma"}
    /\ ExperimentCount = 2
    /\ rows[1].title = "gamma=1<br>beta=20"
    /\ rows[2].title = "gamma=20<br>beta=1"

\* C8: after configure_heatmaps the figure holds 2 * N traces: for each
\* experiment k, in order, its first snapshot at (row k, column 1) and its
\* last snapshot at (row k, column 2), all on the one shared color axis.
C8_Traces ==
    pc \in {"show", "done"} =>
        LET data == Get(figure).data
        IN  /\ Len(data) = 2 * ExperimentCount
            /\ \A k \in 1..ExperimentCount :
                  LET series == Get(runner.experiments[k].series)
                  IN  /\ data[2 * k - 1] =
                            [z |-> series[1], coloraxis |-> "coloraxis",
                             row |-> k, col |-> 1]
                      /\ data[2 * k] =
                            [z |-> series[Len(series)], coloraxis |-> "coloraxis",
                             row |-> k, col |-> 2]

C8_Witness ==
    /\ pc = "show"
    /\ ExperimentCount = 2
    /\ Len(Get(figure).data) = 4
    /\ Get(figure).data[3].z # Get(figure).data[4].z
    /\ Get(figure).data[1].z # Get(figure).data[3].z

\* C9: the figure is displayed at most once, and only after the rows were
\* built, the range computed, the grid made, the layout configured and all
\* 2 * N traces added, in that order; after a fault it is never displayed
\* and no call is made again.
LayoutSet == figure # None /\ Get(figure).layout # None
TracesAdded == figure # None /\ Get(figure).data # <<>>

C9_DisplayedLast ==
    /\ shown <= 1
    /\ shown = 1 =>
          /\ pc = "done"
          /\ RowsBuilt /\ zrange # None /\ LayoutSet
          /\ Len(Get(figure).data) = 2 * ExperimentCount
    /\ TracesAdded => LayoutSet
    /\ figure # None => zrange # None
    /\ zrange # None => RowsBuilt
    /\ pc = "fault" => shown = 0 /\ ~TracesAdded /\ ~ENABLED Next
    /\ pc = "done" => ~ENABLED Next

C9_Witness ==
    /\ pc = "fault"
    /\ RowsBuilt
    /\ ExperimentCount = 2
    /\ shown = 0

\* C10 as stated: an empty first or last snapshot in any row makes
\* calculate_global_min_max fault, so no range is computed.
HasEmptySnapshot ==
    \E k \in DOMAIN rows :
        Cells(rows[k].first_lattice) = {} \/ Cells(rows[k].last_lattice) = {}

C10_AnyEmptyFaults ==
    (RowsBuilt /\ HasEmptySnapshot) => zrange = None

\* C10, amended: calculate_global_min_max faults exactly when every row's
\* first and last snapshot is empty; with at least one cell anywhere it
\* returns the range of the cells there are.
C10_AllEmptyFaults ==
    (RowsBuilt /\ pc # "calculate_global_min_max") =>
        /\ (pc = "fault") = (AllCells = {})
        /\ (zrange = None) = (AllCells = {})

C10_Witness ==
    /\ RowsBuilt /\ pc = "fault"
    /\ ExperimentCount = 2
    /\ AllCells = {}

====
